---- MODULE Spec2Model ----
(***************************************************************************)
(* Embedding generation and vector ingestion pipeline.                     *)
(*   tools/vectorize/02_batch_embed.py      EmbeddingGenerator, main       *)
(*   tools/migration/03_insert_vectorize.py VectorizeInserter, main        *)
(* A lesson id k stands for the string f"L{k:02d}" that                    *)
(* self_created_tools/generate_curriculum.py gives the k-th lesson.        *)
(***************************************************************************)
EXTENDS Integers, Sequences, FiniteSets, TLC

(* ---------------- bounds of the model ---------------- *)
MaxLessons == 21
MaxShort == 3
MaxAnomalies == 1
MaxCache == 5
MaxB == 3
MaxBatches == 3
MaxPipeLessons == 2
MaxRuns == 2
Dim == 2

(* ---------------- program constants ---------------- *)
REQUESTS_PER_MINUTE == 50
BATCH_SIZE == 10
SAVE_EVERY == 20
INSERT_BATCH_SIZE == 100
MAX_RETRIES == 3
RETRY_DELAY == 5
BATCH_PAUSE == 1

VARIABLES
    pc,               \* position of the running script
    disk,             \* data/embeddings/lesson_vectors.json
    lessons,          \* curriculum["lessons"]
    force_regen,      \* argument of batch_embed_lessons
    embeddings_cache, \* the in-memory dict, in insertion order
    i,                \* loop variable of batch_embed_lessons / insert_all
    ret,              \* where _save_cache returns to
    embedded, skipped, failed,
    inserted_count, failed_ids, retry_count, batch_size,
    vectors,          \* argument of the running insert_batch call
    env,              \* credentials, curriculum file and cache directory of the host
    h                 \* history of the run (requests, sleeps, flushes)

vars == <<pc, disk, lessons, force_regen, embeddings_cache, i, ret,
          embedded, skipped, failed,
          inserted_count, failed_ids, retry_count, batch_size, vectors, env, h>>

genVars == <<lessons, force_regen, ret, embedded, skipped, failed, env>>
upVars == <<inserted_count, failed_ids, retry_count, batch_size, vectors, env>>

(* ---------------- generic helpers ---------------- *)
Range(s) == {s[j] : j \in DOMAIN s}

Min(a, b) == IF a < b THEN a ELSE b

RECURSIVE Concat(_)
Concat(ss) == IF ss = <<>> THEN <<>> ELSE Head(ss) \o Concat(Tail(ss))

\* Python's s[a:b] for 0 <= a, with 0-based bounds, on a 1-based sequence
Slice(s, a, b) == SubSeq(s, a + 1, Min(b, Len(s)))

(* ---------------- Python values ---------------- *)
None == "None"
Absent == "<absent>"
UNKNOWN == "UNKNOWN"

PyNone == [kind |-> "none", items |-> <<>>]
PyList(s) == [kind |-> "list", items |-> s]

\* truth value of an object in `if embedding:`
Truthy(v) == v.kind = "list" /\ Len(v.items) > 0

(* ---------------- lesson records ---------------- *)
Lesson(k) ==
    [id |-> k, title |-> k, tacticalConcept |-> k, historicalValidator |-> k,
     phase |-> IF k % 2 = 1 THEN "Volume I" ELSE Absent,
     moduleId |-> k]

create_lesson_text(lesson) ==
    [title |-> lesson.title,
     concept |-> lesson.tacticalConcept,
     validator |-> lesson.historicalValidator,
     phase |-> IF lesson.phase = Absent THEN UNKNOWN ELSE lesson.phase]

LessonMetadata(lesson) ==
    [title |-> lesson.title,
     phase |-> IF lesson.phase = Absent THEN None ELSE lesson.phase,
     module_id |-> lesson.moduleId,
     concept |-> lesson.tacticalConcept]

(* ---------------- the cache dict ---------------- *)
\* a dict in insertion order: a sequence of entries with distinct ids
Keys(cache) == [j \in DOMAIN cache |-> cache[j].id]

Has(cache, id) == \E j \in DOMAIN cache : cache[j].id = id

Get(cache, id) == cache[CHOOSE j \in DOMAIN cache : cache[j].id = id]

\* d[id] = entry: an existing key keeps its position
PutAtEnd(cache, entry) ==
    Append(SelectSeq(cache, LAMBDA e : e.id # entry.id), entry)
Put(cache, entry) ==
    IF Has(cache, entry.id)
    THEN [j \in DOMAIN cache |-> IF cache[j].id = entry.id THEN entry ELSE cache[j]]
    ELSE Append(cache, entry)

(* ---------------- the persisted document ---------------- *)
\* the JSON text of a Python value: a list becomes an array, None becomes null
JsonValue(v) ==
    IF v.kind = "none" THEN [json |-> "null", items |-> <<>>]
    ELSE [json |-> "array", items |-> v.items]

\* the Python value of a JSON text
PyValue(j) == IF j.json = "null" THEN PyNone ELSE PyList(j.items)

\* the metadata object: a phase of None is written as null
JsonMetadata(m) == [m EXCEPT !.phase = IF @ = None THEN "null" ELSE @]

PyMetadata(m) == [m EXCEPT !.phase = IF @ = "null" THEN None ELSE @]

\* json.dump: an object whose members are "key": {"vector", "text", "metadata"}
JsonDump(cache) ==
    [j \in DOMAIN cache |->
        <<cache[j].id, [vector |-> JsonValue(cache[j].vector),
                        text |-> cache[j].text,
                        metadata |-> JsonMetadata(cache[j].metadata)]>>]

\* json.load: members back to dict entries, in document order
JsonLoadReversed(members) ==
    [j \in DOMAIN members |->
        LET m == members[Len(members) + 1 - j] IN
        [id |-> m[1], vector |-> PyValue(m[2].vector), text |-> m[2].text,
         metadata |-> PyMetadata(m[2].metadata)]]
JsonLoad(members) ==
    [j \in DOMAIN members |->
        [id |-> members[j][1],
         vector |-> PyValue(members[j][2].vector),
         text |-> members[j][2].text,
         metadata |-> PyMetadata(members[j][2].metadata)]]

NoFile == [status |-> "absent", members |-> <<>>]
Document(cache) == [status |-> "complete", members |-> JsonDump(cache)]
Truncated == [status |-> "partial", members |-> <<>>]

Vector(tag) == PyList([d \in 1..Dim |-> tag])

\* an entry written by an earlier run for lesson k
OldEntry(k) ==
    [id |-> k, vector |-> Vector(0),
     text |-> create_lesson_text(Lesson(k)),
     metadata |-> LessonMetadata(Lesson(k))]

\* a host on which every precondition of the scripts holds
GoodEnv == [creds |-> TRUE, curriculum |-> TRUE, dirOK |-> TRUE]

Envs == [creds : BOOLEAN, curriculum : BOOLEAN, dirOK : BOOLEAN]

(* ======================================================================= *)
(* Batch uploader: tools/migration/03_insert_vectorize.py                  *)
(* ======================================================================= *)

\* what requests.post / raise_for_status / response.json() can produce
InsertResponses ==
    {"timeout", "connection_error", "http_error", "invalid_json",
     "success_true", "success_false", "success_absent"}

\* the path insert_batch takes on a response: the try body returns, or the
\* except clause runs
InsertOutcome(resp) ==
    CASE resp = "success_true" -> "ok"
      [] resp \in {"success_false", "success_absent"} -> "false"
      [] OTHER -> "exception"

\* lesson_ids[i:i + BATCH_SIZE]; the batch size is a parameter of the model, one
\* of whose values is the script's BATCH_SIZE
BatchIdsShort(lesson_ids, k, B) == Slice(lesson_ids, k, k + B - 1)
BatchIds(lesson_ids, k, B) == Slice(lesson_ids, k, k + B)

\* the remote index after it has applied a request: an upsert by id
Upsert(index, vecs) ==
    SelectSeq(index, LAMBDA e : \A j \in DOMAIN vecs : vecs[j].id # e.id) \o vecs

\* a request the index applied although requests.post then timed out
LostResponses == {"timeout_applied"}

\* the index applied the request
Applies(resp) == resp \in {"success_true"} \cup LostResponses

\* the batch_vectors list insert_all builds for batch_ids
BatchVectorsBlank(cache, batch_ids) ==
    [j \in DOMAIN batch_ids |->
        [id |-> batch_ids[j],
         values |-> PyNone,
         metadata |-> Get(cache, batch_ids[j]).metadata]]
BatchVectors(cache, batch_ids) ==
    [j \in DOMAIN batch_ids |->
        [id |-> batch_ids[j],
         values |-> Get(cache, batch_ids[j]).vector,
         metadata |-> Get(cache, batch_ids[j]).metadata]]


\* `if retry_count < MAX_RETRIES` in the except clause
MayRetryOnceMore(rc) == rc <= MAX_RETRIES
MayRetry(rc) == rc < MAX_RETRIES

\* `if i + BATCH_SIZE < total` before time.sleep(1)
NeedsPauseAlways(k, B, total) == TRUE
NeedsPause(k, B, total) == k + B < total

\* the dict after the loop that builds batch_vectors, which only reads it
CacheAfterBuildPopped(cache, batch_ids) ==
    SelectSeq(cache, LAMBDA e : e.id \notin Range(batch_ids))
CacheAfterBuild(cache, batch_ids) == cache

\* failed_ids after `for vec in vectors: self.failed_ids.append(vec['id'])`
AppendFailedTwice(ids, vecs) ==
    ids \o [j \in DOMAIN vecs |-> vecs[j].id] \o [j \in DOMAIN vecs |-> vecs[j].id]
AppendFailed(ids, vecs) == ids \o [j \in DOMAIN vecs |-> vecs[j].id]

\* the `if __name__ == "__main__"` block of the uploader
UpStart ==
    /\ pc = "up_start"
    /\ pc' = IF env.creds THEN "up_main" ELSE "up_exit1"
    /\ UNCHANGED <<disk, embeddings_cache, i, genVars, upVars, h>>

\* main() of the uploader up to the call of insert_all
UpMain ==
    /\ pc = "up_main"
    /\ IF disk.status = "absent"
       THEN /\ pc' = "up_exit"
            /\ UNCHANGED <<embeddings_cache, i, upVars, h>>
       ELSE IF disk.status = "partial"
       THEN /\ pc' = "up_error"
            /\ UNCHANGED <<embeddings_cache, i, upVars, h>>
       ELSE IF disk.members = <<>>
       THEN /\ pc' = "up_exit"
            /\ embeddings_cache' = <<>>
            /\ UNCHANGED <<i, upVars, h>>
       ELSE /\ embeddings_cache' = JsonLoad(disk.members)
            /\ inserted_count' = 0
            /\ failed_ids' = <<>>
            /\ i' = 0
            /\ pc' = "up_loop"
            /\ UNCHANGED <<retry_count, batch_size, vectors, h>>
    /\ UNCHANGED <<disk, genVars>>

\* one pass of `for i in range(0, total, BATCH_SIZE)` up to insert_batch(batch_vectors)
BuildBatch ==
    /\ pc = "up_loop"
    /\ i < Len(embeddings_cache)
    /\ vectors' = BatchVectors(embeddings_cache,
                               BatchIds(Keys(embeddings_cache), i, batch_size))
    /\ embeddings_cache' = CacheAfterBuild(embeddings_cache,
                                           BatchIds(Keys(embeddings_cache), i, batch_size))
    /\ retry_count' = 0
    /\ h' = [h EXCEPT !.batches = Append(@, vectors'),
                      !.attempts = Append(@, <<>>)]
    /\ pc' = "up_post"
    /\ UNCHANGED <<disk, i, genVars, inserted_count, failed_ids, batch_size>>

\* one call of insert_batch(vectors, retry_count): the request and what follows it
InsertBatch(resp) ==
    LET outcome == InsertOutcome(resp)
        b == Len(h.batches)
        known == \E j \in DOMAIN vectors, k \in DOMAIN h.index : vectors[j].id = h.index[k].id
        posted == [h EXCEPT !.posts = Append(@, [vectors |-> vectors, retry_count |-> retry_count]),
                            !.attempts[b] = Append(@, outcome),
                            !.index = IF Applies(resp) THEN Upsert(@, vectors) ELSE @,
                            !.replayed = @ \/ (Applies(resp) /\ known),
                            !.lost = @ \/ resp \in LostResponses]
    IN
    /\ pc = "up_post"
    /\ CASE outcome = "ok" ->
              /\ inserted_count' = inserted_count + Len(vectors)
              /\ pc' = "up_resolved"
              /\ h' = posted
              /\ UNCHANGED <<failed_ids, retry_count>>
         [] outcome = "false" ->
              /\ pc' = "up_resolved"
              /\ h' = posted
              /\ UNCHANGED <<inserted_count, failed_ids, retry_count>>
         [] outcome = "exception" /\ MayRetry(retry_count) ->
              /\ retry_count' = retry_count + 1
              /\ h' = [posted EXCEPT !.retry_sleeps = Append(@, RETRY_DELAY)]
              /\ pc' = "up_post"
              /\ UNCHANGED <<inserted_count, failed_ids>>
         [] OTHER ->
              /\ failed_ids' = AppendFailed(failed_ids, vectors)
              /\ pc' = "up_resolved"
              /\ h' = posted
              /\ UNCHANGED <<inserted_count, retry_count>>
    /\ UNCHANGED <<disk, embeddings_cache, i, genVars, batch_size, vectors>>

\* the rest of the loop body once insert_batch has returned
AfterBatch ==
    /\ pc = "up_resolved"
    /\ h' = IF NeedsPause(i, batch_size, Len(embeddings_cache))
            THEN [h EXCEPT !.batch_sleeps = Append(@, BATCH_PAUSE)]
            ELSE h
    /\ i' = i + batch_size
    /\ pc' = "up_loop"
    /\ UNCHANGED <<disk, embeddings_cache, genVars, upVars>>

\* the loop is exhausted: the summary is printed
UpSummary ==
    /\ pc = "up_loop"
    /\ i >= Len(embeddings_cache)
    /\ pc' = "up_done"
    /\ UNCHANGED <<disk, embeddings_cache, i, genVars, upVars, h>>

H0 ==
    [calls |-> <<>>, failedRecs |-> {}, sinceFlush |-> 0, sincePause |-> 0,
     maxSincePause |-> 0, pauses |-> <<>>, flushes |-> 0, hits |-> {},
     cache0 |-> <<>>, disk0 |-> NoFile, anomalies |-> 0, unsaved |-> 0, prevDisk |-> NoFile,
     run |-> 0, prevFailed |-> {}, prevForce |-> FALSE, prevCache |-> <<>>,
     firstDisk |-> NoFile, total |-> 0, order |-> <<>>,
     index |-> <<>>, replayed |-> FALSE, lost |-> FALSE,
     batches |-> <<>>, attempts |-> <<>>, posts |-> <<>>,
     retry_sleeps |-> <<>>, batch_sleeps |-> <<>>]

CacheOf(ids) == [j \in DOMAIN ids |-> OldEntry(ids[j])]

\* the keys of the cache file, in document order
DocKeys(d) == [j \in DOMAIN d.members |-> d.members[j][1]]

\* the empty history of a host whose cache file is d
History(d) == [H0 EXCEPT !.firstDisk = d, !.order = DocKeys(d)]

Ids(n) == [j \in 1..n |-> j]

NumBatches(n, B) == (n + B - 1) \div B

InitUpload ==
    /\ pc = "up_main"
    /\ batch_size \in (1..MaxB) \cup {INSERT_BATCH_SIZE}
    /\ \E n \in (0..MaxCache) \cup {INSERT_BATCH_SIZE + 1} :
          /\ NumBatches(n, batch_size) <= MaxBatches
          /\ disk \in {NoFile, Truncated, Document(CacheOf(Ids(n)))}
    /\ lessons = <<>>
    /\ force_regen = FALSE
    /\ embeddings_cache = <<>>
    /\ i = 0
    /\ ret = "none"
    /\ embedded = 0 /\ skipped = 0 /\ failed = 0
    /\ inserted_count = 0
    /\ failed_ids = <<>>
    /\ retry_count = 0
    /\ vectors = <<>>
    /\ env = GoodEnv
    /\ h = History(disk)

NextUpload ==
    \/ UpMain
    \/ BuildBatch
    \/ \E resp \in InsertResponses : InsertBatch(resp)
    \/ AfterBatch
    \/ UpSummary

SpecUpload == InitUpload /\ [][NextUpload]_vars

(* ---------------- the uploader run again over the same cache ---------------- *)
\* a cache whose vectors differ from id to id
ReplayCache(n) == [j \in 1..n |-> [OldEntry(j) EXCEPT !.vector = Vector(j)]]

\* the uploader script is started again: a fresh VectorizeInserter, the same
\* cache file, the same remote index
UpRerun ==
    /\ pc = "up_done"
    /\ h.run + 1 < MaxRuns
    /\ pc' = "up_main"
    /\ embeddings_cache' = <<>>
    /\ i' = 0
    /\ inserted_count' = 0
    /\ failed_ids' = <<>>
    /\ retry_count' = 0
    /\ vectors' = <<>>
    /\ h' = [h EXCEPT !.run = @ + 1, !.batches = <<>>, !.attempts = <<>>, !.posts = <<>>,
                      !.retry_sleeps = <<>>, !.batch_sleeps = <<>>]
    /\ UNCHANGED <<disk, genVars, batch_size>>

InitReplay ==
    /\ pc = "up_main"
    /\ batch_size \in {1, INSERT_BATCH_SIZE}
    /\ \E n \in 1..MaxPipeLessons : disk = Document(ReplayCache(n))
    /\ lessons = <<>>
    /\ force_regen = FALSE
    /\ embeddings_cache = <<>>
    /\ i = 0
    /\ ret = "none"
    /\ embedded = 0 /\ skipped = 0 /\ failed = 0
    /\ inserted_count = 0
    /\ failed_ids = <<>>
    /\ retry_count = 0
    /\ vectors = <<>>
    /\ env = GoodEnv
    /\ h = History(disk)

NextReplay ==
    \/ UpMain
    \/ BuildBatch
    \/ \E resp \in InsertResponses \cup LostResponses : InsertBatch(resp)
    \/ AfterBatch
    \/ UpSummary
    \/ UpRerun

SpecReplay == InitReplay /\ [][NextReplay]_vars

(* ======================================================================= *)
(* Embedding generator: tools/vectorize/02_batch_embed.py                  *)
(* ======================================================================= *)

Response(kind, success, hasResult, hasData, data) ==
    [kind |-> kind, success |-> success, hasResult |-> hasResult,
     hasData |-> hasData, data |-> data]

\* {"success": true, "result": {"data": [[D floats]]}}
GoodResponse == Response("json", "true", TRUE, TRUE, <<Vector(1)>>)

\* answers generate_embedding or its caller turns down, and no answer at all
FailResponses ==
    {Response("timeout", Absent, FALSE, FALSE, <<>>),
     Response("http_error", Absent, FALSE, FALSE, <<>>),
     Response("invalid_json", Absent, FALSE, FALSE, <<>>),
     Response("json", "false", TRUE, TRUE, <<Vector(1)>>),
     Response("json", Absent, TRUE, TRUE, <<Vector(1)>>),
     Response("json", "true", FALSE, FALSE, <<>>),
     Response("json", "true", TRUE, FALSE, <<>>),
     Response("json", "true", TRUE, TRUE, <<>>),
     Response("json", "true", TRUE, TRUE, <<PyList(<<>>)>>)}

EmbedResponses == {GoodResponse} \cup FailResponses

\* generate_embedding: the value returned for a response (None on any exception)
generate_embedding_none(resp) == PyNone
generate_embedding(resp) ==
    IF resp.kind # "json" THEN PyNone
    ELSE IF resp.success = "true" /\ resp.hasResult
         THEN IF ~resp.hasData THEN PyNone
              ELSE IF resp.data = <<>> THEN PyNone
              ELSE resp.data[1]
         ELSE PyNone

\* `lesson_id in self.embeddings_cache and not force_regen`
IsCachedNever(cache, id, force) == FALSE
IsCachedAlways(cache, id, force) == TRUE
IsCached(cache, id, force) == Has(cache, id) /\ ~force

NewEntryOtherText(lesson, text, embedding) ==
    [id |-> lesson.id, vector |-> embedding, text |-> [text EXCEPT !.phase = UNKNOWN],
     metadata |-> LessonMetadata(lesson)]
NewEntry(lesson, text, embedding) ==
    [id |-> lesson.id, vector |-> embedding, text |-> text,
     metadata |-> LessonMetadata(lesson)]

\* the cache after the `if embedding:` statement
StorePoisoned(cache, lesson, text, embedding) == Put(cache, NewEntry(lesson, text, embedding))
Store(cache, lesson, text, embedding) ==
    IF Truthy(embedding) THEN Put(cache, NewEntry(lesson, text, embedding)) ELSE cache

\* EmbeddingGenerator() and the entry of batch_embed_lessons
Construct ==
    /\ pc = "construct"
    /\ IF disk.status = "partial"
       THEN /\ pc' = "error"
            /\ UNCHANGED <<embeddings_cache, i, embedded, skipped, failed, h>>
       ELSE /\ embeddings_cache' = IF disk.status = "absent" THEN <<>>
                                   ELSE JsonLoad(disk.members)
            /\ embedded' = 0 /\ skipped' = 0 /\ failed' = 0
            /\ i' = 1
            /\ h' = [h EXCEPT !.cache0 = embeddings_cache', !.disk0 = disk]
            /\ pc' = "loop"
    /\ UNCHANGED <<disk, lessons, force_regen, ret, upVars>>

\* a pass of the loop that ends at `continue`
CacheHit ==
    /\ pc = "loop"
    /\ i <= Len(lessons)
    /\ IsCached(embeddings_cache, lessons[i].id, force_regen)
    /\ skipped' = skipped + 1
    /\ i' = i + 1
    /\ h' = [h EXCEPT !.sinceFlush = @ + 1,
                      !.hits = @ \cup {lessons[i].id}]
    /\ UNCHANGED <<pc, disk, lessons, force_regen, embeddings_cache, ret,
                   embedded, failed, upVars>>

\* time.sleep(60 / REQUESTS_PER_MINUTE * BATCH_SIZE), in seconds
RateLimitPause == (60 * BATCH_SIZE) \div REQUESTS_PER_MINUTE

\* _save_cache: the file after open(self.cache_file, 'w'), before json.dump
SaveOpen == Truncated

\* _save_cache: mkdir(parents=True, exist_ok=True) and open raise when the
\* cache directory cannot be created, and nothing catches the exception
SaveEntrySkipped == "done"
SaveEntry == IF env.dirOK THEN "dump" ELSE "error"

\* a pass of the loop that calls the embedding service
Embed(resp) ==
    LET lesson == lessons[i]
        lesson_text == create_lesson_text(lesson)
        embedding == generate_embedding(resp)
        pause == i % BATCH_SIZE = 0
        save == i % SAVE_EVERY = 0
    IN
    /\ pc = "loop"
    /\ i <= Len(lessons)
    /\ ~IsCached(embeddings_cache, lesson.id, force_regen)
    /\ resp # GoodResponse => h.anomalies < MaxAnomalies
    /\ embeddings_cache' = Store(embeddings_cache, lesson, lesson_text, embedding)
    /\ embedded' = IF Truthy(embedding) THEN embedded + 1 ELSE embedded
    /\ failed' = IF Truthy(embedding) THEN failed ELSE failed + 1
    /\ h' = [h EXCEPT !.calls = Append(@, [id |-> lesson.id, text |-> lesson_text,
                                            vector |-> IF Truthy(embedding) THEN embedding
                                                       ELSE PyNone]),
                      !.failedRecs = IF Truthy(embedding) THEN @ ELSE @ \cup {lesson.id},
                      !.anomalies = IF resp = GoodResponse THEN @ ELSE @ + 1,
                      !.total = @ + 1,
                      !.order = IF Truthy(embedding) /\ ~Has(embeddings_cache, lesson.id)
                                THEN Append(@, lesson.id) ELSE @,
                      !.sinceFlush = @ + 1,
                      !.unsaved = IF Truthy(embedding) THEN @ + 1 ELSE @,
                      !.prevDisk = IF save THEN disk ELSE @,
                      !.sincePause = IF pause THEN 0 ELSE @ + 1,
                      !.maxSincePause = IF h.sincePause + 1 > @ THEN h.sincePause + 1 ELSE @,
                      !.pauses = IF pause THEN Append(@, RateLimitPause) ELSE @]
    /\ i' = i + 1
    /\ pc' = IF save THEN SaveEntry ELSE "loop"
    /\ ret' = IF save THEN "loop" ELSE ret
    /\ disk' = IF save /\ env.dirOK THEN SaveOpen ELSE disk
    /\ UNCHANGED <<lessons, force_regen, skipped, upVars>>

\* the loop is exhausted: the final save begins
LoopEnd ==
    /\ pc = "loop"
    /\ i > Len(lessons)
    /\ disk' = IF env.dirOK THEN SaveOpen ELSE disk
    /\ pc' = SaveEntry
    /\ ret' = "done"
    /\ h' = [h EXCEPT !.prevDisk = disk]
    /\ UNCHANGED <<lessons, force_regen, embeddings_cache, i,
                   embedded, skipped, failed, upVars>>

\* _save_cache: json.dump has written the whole dict and the file is closed
SaveDump ==
    /\ pc = "dump"
    /\ disk' = Document(embeddings_cache)
    /\ pc' = ret
    /\ h' = [h EXCEPT !.sinceFlush = 0, !.unsaved = 0, !.flushes = @ + 1]
    /\ UNCHANGED <<lessons, force_regen, embeddings_cache, i, ret,
                   embedded, skipped, failed, upVars>>

\* the process is killed while _save_cache runs
CrashInFlush ==
    /\ pc = "dump"
    /\ pc' = "crashed"
    /\ UNCHANGED <<disk, h, lessons, force_regen, embeddings_cache, i, ret,
                   embedded, skipped, failed, upVars>>

\* the caches an earlier run can have left: none of the lessons, one, or all
PreCached(n) == {<<>>, Ids(n)} \cup {<<k>> : k \in 1..n}

\* lists shorter than a rate-limit window, and lists that reach the save cadence
LessonCounts == (0..MaxShort) \cup (SAVE_EVERY..MaxLessons)

Init ==
    /\ pc = "construct"
    /\ \E n \in LessonCounts :
          /\ lessons = [k \in 1..n |-> Lesson(k)]
          /\ disk \in {NoFile, Truncated} \cup {Document(CacheOf(ids)) : ids \in PreCached(n)}
    /\ force_regen \in BOOLEAN
    /\ embeddings_cache = <<>>
    /\ i = 0
    /\ ret = "none"
    /\ embedded = 0 /\ skipped = 0 /\ failed = 0
    /\ inserted_count = 0
    /\ failed_ids = <<>>
    /\ retry_count = 0
    /\ batch_size = INSERT_BATCH_SIZE
    /\ vectors = <<>>
    /\ env = GoodEnv
    /\ h = History(disk)

Next ==
    \/ Construct
    \/ CacheHit
    \/ \E resp \in EmbedResponses : Embed(resp)
    \/ LoopEnd
    \/ SaveDump
    \/ CrashInFlush

Spec == Init /\ [][Next]_vars

(* ======================================================================= *)
(* The two scripts run one after the other on one host                     *)
(* ======================================================================= *)

\* answers that carry a vector of the wrong length
ShapeResponses ==
    {Response("json", "true", TRUE, TRUE, <<PyList([d \in 1..(Dim - 1) |-> 1])>>)}

\* the `if __name__ == "__main__"` block of the generator and main() up to
\* EmbeddingGenerator()
GenStart ==
    /\ pc = "start"
    /\ pc' = IF ~env.creds THEN "exit1"
             ELSE IF ~env.curriculum THEN "returned"
             ELSE IF lessons = <<>> THEN "returned"
             ELSE "construct"
    /\ UNCHANGED <<disk, embeddings_cache, i, genVars, upVars, h>>

\* what a finished generator process leaves to the process started next
Handover ==
    [h EXCEPT !.run = @ + 1,
              !.prevFailed = h.failedRecs, !.prevForce = force_regen,
              !.prevCache = embeddings_cache,
              !.calls = <<>>, !.failedRecs = {}, !.hits = {},
              !.sinceFlush = 0, !.sincePause = 0, !.maxSincePause = 0,
              !.pauses = <<>>, !.flushes = 0]

\* the generator script is started again on the same curriculum
NextRun ==
    /\ pc = "done"
    /\ h.run + 1 < MaxRuns
    /\ pc' = "start"
    /\ force_regen' \in BOOLEAN
    /\ embeddings_cache' = <<>>
    /\ i' = 0
    /\ embedded' = 0 /\ skipped' = 0 /\ failed' = 0
    /\ h' = Handover
    /\ UNCHANGED <<disk, lessons, ret, upVars>>

\* the uploader script is started after a generator run
StartUpload ==
    /\ pc = "done"
    /\ pc' = "up_start"
    /\ embeddings_cache' = <<>>
    /\ i' = 0
    /\ h' = Handover
    /\ UNCHANGED <<disk, genVars, upVars>>

\* the exit status of the process: exit(1) and an uncaught exception give 1,
\* a return from main() gives 0
ExitStatus ==
    CASE pc \in {"exit1", "up_exit1", "error", "up_error", "crashed"} -> 1
      [] pc \in {"returned", "done", "up_exit", "up_done"} -> 0
      [] OTHER -> -1

InitPipeline ==
    /\ env \in Envs
    /\ \/ /\ pc = "start"
          /\ force_regen \in BOOLEAN
          /\ batch_size = INSERT_BATCH_SIZE
          /\ \E n \in 0..MaxPipeLessons :
                /\ lessons = IF env.curriculum THEN [k \in 1..n |-> Lesson(k)] ELSE <<>>
                /\ disk \in {NoFile, Truncated} \cup {Document(CacheOf(ids)) : ids \in PreCached(n)}
       \/ /\ pc = "up_start"
          /\ force_regen = FALSE
          /\ batch_size \in {1, INSERT_BATCH_SIZE}
          /\ lessons = <<>>
          /\ \E n \in 0..MaxPipeLessons :
                disk \in {NoFile, Truncated, Document(CacheOf(Ids(n)))}
    /\ embeddings_cache = <<>>
    /\ i = 0
    /\ ret = "none"
    /\ embedded = 0 /\ skipped = 0 /\ failed = 0
    /\ inserted_count = 0
    /\ failed_ids = <<>>
    /\ retry_count = 0
    /\ vectors = <<>>
    /\ h = History(disk)

NextPipeline ==
    \/ GenStart
    \/ Construct
    \/ CacheHit
    \/ \E resp \in EmbedResponses \cup ShapeResponses : Embed(resp)
    \/ LoopEnd
    \/ SaveDump
    \/ NextRun
    \/ StartUpload
    \/ UpStart
    \/ UpMain
    \/ BuildBatch
    \/ \E resp \in InsertResponses : InsertBatch(resp)
    \/ AfterBatch
    \/ UpSummary

SpecPipeline == InitPipeline /\ [][NextPipeline]_vars

\* every started process keeps running until it ends
SpecPipelineFair == SpecPipeline /\ WF_vars(NextPipeline)

(* ======================================================================= *)
(* Properties of the uploader (checked under SpecUpload)                   *)
(* ======================================================================= *)

BatchIdsOf(b) == [j \in DOMAIN h.batches[b] |-> h.batches[b][j].id]

\* insert_batch has returned to insert_all for batch b
Resolved(b) == b < Len(h.batches) \/ pc \in {"up_resolved", "up_loop", "up_done"}

Succeeded(b) == \E j \in DOMAIN h.attempts[b] : h.attempts[b][j] = "ok"

AllFailed(b) == ~Succeeded(b)

Exhausted(b) == AllFailed(b) /\ Len(h.attempts[b]) = MAX_RETRIES + 1

RECURSIVE SizeOfSucceeded(_)
SizeOfSucceeded(b) ==
    IF b = 0 THEN 0
    ELSE SizeOfSucceeded(b - 1) + (IF Succeeded(b) THEN Len(h.batches[b]) ELSE 0)

RECURSIVE IdsOfExhausted(_)
IdsOfExhausted(b) ==
    IF b = 0 THEN <<>>
    ELSE IdsOfExhausted(b - 1) \o (IF Exhausted(b) THEN BatchIdsOf(b) ELSE <<>>)

\* C1: a batch whose every attempt failed (an exception, or success absent or
\* false) has been sent MAX_RETRIES + 1 times when insert_batch returns, all its
\* ids are then in failed_ids and inserted_count holds nothing for it.
C1_RetryBound ==
    \A b \in DOMAIN h.batches :
        (Resolved(b) /\ AllFailed(b)) =>
            /\ Len(h.attempts[b]) = MAX_RETRIES + 1
            /\ \A j \in DOMAIN h.batches[b] : h.batches[b][j].id \in Range(failed_ids)
            /\ inserted_count = SizeOfSucceeded(Len(h.batches))

\* the request of this step ended in a failure of the given kinds
AttemptFailed ==
    /\ pc = "up_post"
    /\ Len(h'.posts) = Len(h.posts) + 1
    /\ h'.attempts[Len(h.batches)][Len(h'.attempts[Len(h.batches)])] \in {"false", "exception"}

\* C2: an attempt that ends in a transport/HTTP failure or in success=false while
\* retry_count < MAX_RETRIES is followed by the fixed RETRY_DELAY and a new
\* attempt on the same vectors with retry_count + 1.
C2_RetrySameBatch ==
    [][(AttemptFailed /\ retry_count < MAX_RETRIES) =>
          /\ pc' = "up_post"
          /\ vectors' = vectors
          /\ retry_count' = retry_count + 1
          /\ h'.retry_sleeps = Append(h.retry_sleeps, RETRY_DELAY)]_vars

\* C4: when insert_all ends every batch has been sent, failed_ids holds the ids
\* of the batches that failed on all MAX_RETRIES + 1 attempts and no others, and
\* inserted_count is the total size of the batches that succeeded.
C4_BatchIndependence ==
    pc = "up_done" =>
        /\ Len(h.batches) = NumBatches(Len(embeddings_cache), batch_size)
        /\ \A b \in DOMAIN h.batches : Len(h.attempts[b]) >= 1
        /\ failed_ids = IdsOfExhausted(Len(h.batches))
        /\ inserted_count = SizeOfSucceeded(Len(h.batches))

\* C10: the batches insert_all sent are the consecutive slices of the cache keys
\* in insertion order: batch b holds keys (b-1)*B+1 .. b*B, every batch but the
\* last has B ids, the last between 1 and B, their concatenation is the key
\* sequence, and each vector and metadata is the cache's for its id.
C10_DeterministicBatching ==
    pc = "up_done" =>
        LET keys == Keys(embeddings_cache)
            n == Len(keys)
            B == batch_size
            k == Len(h.batches)
        IN
        /\ Concat([b \in 1..k |-> BatchIdsOf(b)]) = keys
        /\ \A b \in 1..k :
              /\ BatchIdsOf(b) = SubSeq(keys, (b - 1) * B + 1, Min(b * B, n))
              /\ b < k => Len(h.batches[b]) = B
              /\ b = k => Len(h.batches[b]) \in 1..B
              /\ \A j \in DOMAIN h.batches[b] :
                    /\ h.batches[b][j].values = Get(embeddings_cache, h.batches[b][j].id).vector
                    /\ h.batches[b][j].metadata = Get(embeddings_cache, h.batches[b][j].id).metadata
        /\ (n = 5 /\ B = 2) => [b \in 1..k |-> Len(h.batches[b])] = <<2, 2, 1>>

\* C10 witness: a run over 5 ids with B = 2 has ended after three batches
C10_Witness ==
    /\ pc = "up_done"
    /\ Len(embeddings_cache) = 5
    /\ batch_size = 2
    /\ Len(h.batches) = 3

(* ======================================================================= *)
(* Properties of the generator (checked under Spec)                        *)
(* ======================================================================= *)

CallIds == {h.calls[j].id : j \in DOMAIN h.calls}

LessonIds == {lessons[j].id : j \in DOMAIN lessons}

SameEntry(c1, c2, id) ==
    /\ Has(c1, id) <=> Has(c2, id)
    /\ Has(c1, id) => Get(c1, id) = Get(c2, id)

\* C3 as stated: at the end of a run every record whose embedding call failed is
\* absent from the cache and counted as failed, and every other record was
\* attempted and, on success, is in the cache.
C3_FailedAbsent ==
    pc = "done" =>
        /\ \A k \in h.failedRecs : ~Has(embeddings_cache, k)
        /\ failed = Cardinality(h.failedRecs)
        /\ \A id \in LessonIds :
              \/ id \in CallIds
              \/ ~force_regen /\ Has(h.cache0, id)
        /\ \A id \in CallIds \ h.failedRecs : Has(embeddings_cache, id)

\* C3 amended: at the end of a run every record whose embedding call failed is
\* counted as failed and its cache entry is what it was at the start of the run
\* (none when force_regen is false); every other record was attempted and, on
\* success, holds the returned vector in the cache.
C3_PartialFailureIsolation ==
    pc = "done" =>
        /\ \A k \in h.failedRecs :
              /\ k \in CallIds
              /\ SameEntry(embeddings_cache, h.cache0, k)
              /\ ~force_regen => ~Has(embeddings_cache, k)
        /\ failed = Cardinality(h.failedRecs)
        /\ \A id \in LessonIds :
              \/ id \in CallIds
              \/ ~force_regen /\ Has(h.cache0, id)
        /\ \A id \in CallIds \ h.failedRecs :
              /\ Has(embeddings_cache, id)
              /\ Get(embeddings_cache, id).vector = Vector(1)

\* C3 witness: a force_regen run has ended in which the call for a record that
\* had a cache entry failed and a later record was embedded
C3_Witness ==
    /\ pc = "done"
    /\ force_regen
    /\ \E k \in h.failedRecs :
          /\ Has(h.cache0, k)
          /\ \E id \in CallIds \ h.failedRecs : id > k /\ Has(embeddings_cache, id)

AllCached == \A id \in LessonIds : Has(h.cache0, id)

\* C5: in a run with force_regen false over records that all have a cache
\* entry, no embedding request is ever sent, the dict stays what was loaded, and
\* the document written at the end loads to that same mapping.
C5_IdempotentSkip ==
    (pc \in {"loop", "dump", "done"} /\ ~force_regen /\ AllCached) =>
        /\ h.calls = <<>>
        /\ embeddings_cache = h.cache0
        /\ pc = "done" => (disk.status = "complete" /\ JsonLoad(disk.members) = h.cache0)

\* C5 witness: a run over a fully cached list of at least two records has ended
C5_Witness ==
    /\ pc = "done"
    /\ ~force_regen
    /\ AllCached
    /\ Len(lessons) >= 2
    /\ skipped = Len(lessons)

\* C6: between two records of a run fewer than SAVE_EVERY embeddings generated
\* since the last flush are held in memory only.
C6_DurabilityBound == pc = "loop" => h.unsaved < SAVE_EVERY

\* C7: after a crash during a _save_cache that began with a complete, non-empty
\* snapshot on disk, the file holds that complete snapshot or the complete new
\* one.
C7_CrashSafeFlush ==
    (pc = "crashed" /\ h.prevDisk.status = "complete" /\ h.prevDisk.members # <<>>) =>
        /\ disk.status # "partial"
        /\ disk = h.prevDisk \/ disk = Document(embeddings_cache)

\* C8: loading never ends the run in an error, and an absent or unreadable
\* cache file loads as the empty mapping.
C8_LoadNeverFails ==
    /\ pc # "error"
    /\ (pc = "loop" /\ h.disk0.status \in {"absent", "partial"}) => h.cache0 = <<>>

\* C9: no more than BATCH_SIZE embedding requests are sent between two
\* consecutive rate-limit pauses, or before the first.
C9_RateLimit == h.maxSincePause <= BATCH_SIZE

(* ======================================================================= *)
(* Properties of the two scripts run one after the other                   *)
(* (checked under SpecPipeline, C18 under SpecPipelineFair)                *)
(* ======================================================================= *)

SentIds == Concat([b \in DOMAIN h.batches |-> BatchIdsOf(b)])

\* the ids of the record list that have a cache entry, in record-list order
ListOrder == SelectSeq([j \in DOMAIN lessons |-> lessons[j].id],
                       LAMBDA id : Has(embeddings_cache, id))

\* every vector of the cache is a list of Dim numbers
AllVectorsOfDim ==
    \A j \in DOMAIN embeddings_cache :
        /\ embeddings_cache[j].vector.kind = "list"
        /\ Len(embeddings_cache[j].vector.items) = Dim

\* C11 as stated: after generator runs followed by an uploader run, the ids go
\* out in the order of their records in the record list.
C11_RecordListOrder ==
    (pc = "up_done" /\ h.run >= 1 /\ AllVectorsOfDim) => SentIds = ListOrder

\* C11 amended: the ids go out in the insertion order of the cache, that is in
\* the order in which the ids first got a cache entry.
C11_CacheInsertionOrder ==
    pc = "up_done" => (SentIds = h.order /\ SentIds = Keys(embeddings_cache))

\* C11 witness: an upload has ended that followed two generator runs and sent
\* the ids out of record-list order
C11_Witness ==
    /\ pc = "up_done"
    /\ h.run = 2
    /\ Len(SentIds) >= 2
    /\ SentIds # ListOrder

\* C12: when the credentials are missing no request of either kind is sent, and
\* when the curriculum is missing, the record list is empty or the cache
\* directory cannot be created, no embedding request is sent.
C12_Preflight ==
    /\ ~env.creds => (h.total = 0 /\ h.posts = <<>>)
    /\ (~env.curriculum \/ lessons = <<>> \/ ~env.dirOK) => h.total = 0

GenBadInput == ~env.creds \/ ~env.curriculum \/ lessons = <<>>

UpBadInput == ~env.creds \/ disk.status = "absent" \/ disk.members = <<>>

\* C13: a generator or uploader process that ends on missing configuration or
\* empty required inputs has a non-zero exit status and has sent nothing and
\* written nothing; a process that completes has exit status 0.
C13_ExitStatus ==
    /\ (pc \in {"exit1", "returned"} /\ GenBadInput) =>
          (ExitStatus # 0 /\ h.total = 0 /\ disk = h.firstDisk)
    /\ (pc \in {"up_exit1", "up_exit"} /\ UpBadInput) =>
          (ExitStatus # 0 /\ h.posts = <<>>)
    /\ pc \in {"done", "up_done"} => ExitStatus = 0

\* C15: every entry of the cache holds a vector of dimensionality Dim.
C15_VectorShape == AllVectorsOfDim

\* the step handles a record whose embedding call failed
FailedStep == pc = "loop" /\ failed' = failed + 1

SecondRunEnded == pc = "done" /\ h.run = 1 /\ ~force_regen

\* C16 as stated: the step that handles a failed record leaves the cache as it
\* was, and a following run with force_regen false calls the service again for
\* every record that failed in the run before.
C16_FailedRetriedNextRun ==
    SecondRunEnded => h.prevFailed \subseteq CallIds

\* C16 amended: the step that handles a failed record leaves the cache as it
\* was, and a following run with force_regen false calls the service again for
\* every record that failed in the run before and has no cache entry, which is
\* every failed record when the run before had force_regen false.
C16_NoPoison ==
    /\ [][FailedStep => embeddings_cache' = embeddings_cache]_vars
    /\ [](SecondRunEnded =>
            \A k \in h.prevFailed :
                /\ ~Has(h.cache0, k) => k \in CallIds
                /\ ~h.prevForce => k \in CallIds)

\* C16 witness: a second run with force_regen false has ended after a run in
\* which a record failed, and called the service for that record
C16_Witness ==
    /\ SecondRunEnded
    /\ h.prevFailed # {}
    /\ h.prevFailed \subseteq CallIds

GenEnded == {"exit1", "returned", "error", "done"}

UpEnded == {"up_exit1", "up_exit", "up_error", "up_done"}

\* C18: every started generator process and every started uploader process
\* ends; the uploader sends at most MAX_RETRIES + 1 requests for a batch and the
\* generator at most one request for a record.
C18_Termination ==
    /\ (pc = "start") ~> (pc \in GenEnded)
    /\ (pc = "up_start") ~> (pc \in UpEnded)
    /\ [](\A b \in DOMAIN h.attempts : Len(h.attempts[b]) <= MAX_RETRIES + 1)
    /\ [](\A j, k \in DOMAIN h.calls : h.calls[j].id = h.calls[k].id => j = k)

\* C18 witness: an uploader run that followed a generator run has ended after
\* a batch used up all its attempts
C18_Witness ==
    /\ pc = "up_done"
    /\ h.run >= 1
    /\ Len(h.calls) = 0
    /\ \E b \in DOMAIN h.attempts : Len(h.attempts[b]) = MAX_RETRIES + 1

CachedAtStart == {id \in LessonIds : Has(h.cache0, id)}

\* C14: at the end of a run with force_regen false the three counts add up to
\* the number of records, the cached count is the number of records that had an
\* entry, those entries are what they were at the start; 3 records on an empty
\* cache with no failure give 3, 0, 0 and with record 2 cached give 2, 1, 0.
C14_SummaryCounts ==
    (pc = "done" /\ ~force_regen) =>
        /\ embedded + skipped + failed = Len(lessons)
        /\ skipped = Cardinality(CachedAtStart)
        /\ failed = Cardinality(h.failedRecs)
        /\ \A id \in CachedAtStart : Get(embeddings_cache, id) = Get(h.cache0, id)
        /\ (Len(lessons) = 3 /\ h.anomalies = 0) =>
              /\ h.cache0 = <<>> =>
                    (embedded = 3 /\ skipped = 0 /\ failed = 0 /\ Len(embeddings_cache) = 3)
              /\ Keys(h.cache0) = <<2>> =>
                    (embedded = 2 /\ skipped = 1 /\ failed = 0)

\* C14 witness: a run over 3 records with record 2 cached has ended without a
\* failure
C14_Witness ==
    /\ pc = "done"
    /\ ~force_regen
    /\ Len(lessons) = 3
    /\ Keys(h.cache0) = <<2>>
    /\ h.anomalies = 0
    /\ embedded = 2

TotalBatches == NumBatches(Len(embeddings_cache), batch_size)

\* C17: one BATCH_PAUSE is slept after each batch but the last, once the batch
\* is resolved and before the next is sent, whatever the number of retries: a
\* run over k batches ends with k - 1 pauses.
C17_InterBatchPause ==
    /\ \A j \in DOMAIN h.batch_sleeps : h.batch_sleeps[j] = BATCH_PAUSE
    /\ pc \in {"up_post", "up_resolved"} => Len(h.batch_sleeps) = Len(h.batches) - 1
    /\ (pc = "up_loop" /\ i < Len(embeddings_cache)) => Len(h.batch_sleeps) = Len(h.batches)
    /\ pc = "up_done" =>
          /\ Len(h.batches) = TotalBatches
          /\ Len(h.batch_sleeps) = TotalBatches - 1

\* C17 witness: a run over three batches has ended with retries in it
C17_Witness ==
    /\ pc = "up_done"
    /\ Len(h.batches) = 3
    /\ Len(h.retry_sleeps) >= 2
    /\ Len(h.batch_sleeps) = 2

UploadStepKeepsCache ==
    pc \in {"up_loop", "up_post", "up_resolved"} =>
        (embeddings_cache' = embeddings_cache /\ disk' = disk)

\* C19: no step of insert_all or insert_batch changes the dict or the cache
\* file, so that at the end the dict is still what the file holds.
C19_CacheReadOnly ==
    /\ [][UploadStepKeepsCache]_vars
    /\ [](pc = "up_done" =>
            (disk = h.firstDisk /\ embeddings_cache = JsonLoad(disk.members)))

\* C19 witness: a run has ended in which one batch was inserted and another
\* was given up
C19_Witness ==
    /\ pc = "up_done"
    /\ inserted_count > 0
    /\ failed_ids # <<>>

\* C22: when insert_all has finished, inserted_count + len(failed_ids) is the
\* number of ids of the cache.
C22_AccountingComplete ==
    pc = "up_done" => inserted_count + Len(failed_ids) = Len(embeddings_cache)

\* C23: no batch is both counted in inserted_count and listed in failed_ids, no
\* id is twice in failed_ids, and inserted_count is the size of the batches that
\* succeeded, hence at most the number of ids sent so far.
C23_AccountingExclusive ==
    /\ \A b \in DOMAIN h.batches :
          Succeeded(b) => \A j \in DOMAIN h.batches[b] :
                              h.batches[b][j].id \notin Range(failed_ids)
    /\ \A j, k \in DOMAIN failed_ids : failed_ids[j] = failed_ids[k] => j = k
    /\ inserted_count = SizeOfSucceeded(Len(h.batches))
    /\ inserted_count <= Len(SentIds)

\* C23 witness: a run over three batches has ended, the first inserted, the
\* second given up after all its attempts, the third answered success=false
C23_Witness ==
    /\ pc = "up_done"
    /\ Len(h.batches) = 3
    /\ Succeeded(1)
    /\ Exhausted(2)
    /\ h.attempts[3] = <<"false">>
    /\ Range(failed_ids) = Range(BatchIdsOf(2))

(* ======================================================================= *)
(* Properties of repeated uploader runs (checked under SpecReplay)         *)
(* ======================================================================= *)

\* C21: whatever uploader runs, retries and lost responses came before, the
\* upserting index holds at most one entry for an id, and that entry's vector
\* is the vector the cache holds for the id.
C21_ReplaySafe ==
    LET cache == JsonLoad(disk.members) IN
    /\ \A j, k \in DOMAIN h.index : h.index[j].id = h.index[k].id => j = k
    /\ \A j \in DOMAIN h.index :
          /\ Has(cache, h.index[j].id)
          /\ h.index[j].values = Get(cache, h.index[j].id).vector

\* C21 witness: a second run has ended, the index holds every id of the cache,
\* a batch was sent again after the index had applied it, and a response was
\* lost after the index had applied the request
C21_Witness ==
    /\ pc = "up_done"
    /\ h.run >= 1
    /\ h.replayed
    /\ h.lost
    /\ Len(h.index) = Len(embeddings_cache)
    /\ Len(h.index) >= 2

(* ======================================================================= *)
(* Further properties of one generator run (checked under Spec)            *)
(* ======================================================================= *)

\* the ids of the embedding requests of this run, in the order they were sent
CallSeq == [j \in DOMAIN h.calls |-> h.calls[j].id]

\* the ids of the first n records that are due for a request, in list order
Due(n) == SelectSeq([j \in 1..n |-> lessons[j].id],
                    LAMBDA id : force_regen \/ ~Has(h.cache0, id))

\* C24: the requests sent so far are, in list order, one for each record
\* handled so far that had no cache entry or was handled with force_regen, and
\* none for the others: no record is called twice.
C24_NoRetry ==
    pc \in {"loop", "dump", "done"} => CallSeq = Due(i - 1)

\* C24 witness: a run over 3 records with record 2 cached has ended, one of the
\* two calls failed and was not repeated
C24_Witness ==
    /\ pc = "done"
    /\ ~force_regen
    /\ Len(lessons) = 3
    /\ Keys(h.cache0) = <<2>>
    /\ failed = 1
    /\ CallSeq = <<1, 3>>

\* C25: when batch_embed_lessons has completed, the cache file holds the
\* complete document of the dict in memory.
C25_FinalFlush ==
    pc = "done" => (disk = Document(embeddings_cache)
                    /\ JsonLoad(disk.members) = embeddings_cache)

\* C25 witness: a run has completed whose last record was a cache hit, after a
\* success and a failure
C25_Witness ==
    /\ pc = "done"
    /\ ~force_regen
    /\ Len(lessons) = 3
    /\ Keys(h.cache0) = <<3>>
    /\ embedded = 1
    /\ failed = 1
    /\ skipped = 1

\* the entry is the one a request of this run produced
ProducedThisRun(e) ==
    \E k \in DOMAIN h.calls :
        /\ h.calls[k].id = e.id
        /\ h.calls[k].text = e.text
        /\ h.calls[k].vector = e.vector

\* the entry is the one the cache held when the run began
KeptFromStart(e) == Has(h.cache0, e.id) /\ e = Get(h.cache0, e.id)

\* C26: every entry of the cache either is the entry the run began with, or
\* holds the text of the request of this run whose response is its vector; the
\* text is in both cases the canonical text of the record.
C26_EntryConsistency ==
    \A j \in DOMAIN embeddings_cache :
        /\ KeptFromStart(embeddings_cache[j]) \/ ProducedThisRun(embeddings_cache[j])
        /\ embeddings_cache[j].text = create_lesson_text(Lesson(embeddings_cache[j].id))

\* C26 witness: a force_regen run has ended in which the re-embedding of a
\* cached record failed and another record was re-embedded
C26_Witness ==
    /\ pc = "done"
    /\ force_regen
    /\ \E id \in h.failedRecs :
          /\ Has(h.cache0, id)
          /\ Get(embeddings_cache, id) = Get(h.cache0, id)
    /\ \E j \in DOMAIN embeddings_cache :
          /\ Has(h.cache0, embeddings_cache[j].id)
          /\ ~KeptFromStart(embeddings_cache[j])
          /\ ProducedThisRun(embeddings_cache[j])

====
